---- MODULE Spec2Model ----
(***************************************************************************)
(* Verification model of the verifiable-memory commitment engine:          *)
(* the transactional write path (DatabaseService), the in-memory sparse    *)
(* Merkle tree and its merkle_nodes table (SmtStore), the proof verifier,  *)
(* the dual-root RootManager with its trusted-state file and background    *)
(* committer, the external anchor, and the HTTP handlers that drive them.  *)
(*                                                                         *)
(* Digests are abstracted by injective encodings: a leaf key is the index  *)
(* of its (table, pk) pair, a leaf value is the index of the canonical row *)
(* it hashes (0 is the zero digest, "absent"), and a root is the base-     *)
(* (NumVals+1) number whose digits are the leaf values, so that two trees  *)
(* have the same root exactly when they hold the same leaves and the empty *)
(* tree has root 0 (H256::zero()).                                         *)
(***************************************************************************)
EXTENDS Integers, Sequences, FiniteSets, TLC

\* ---------------------------------------------------------------- bounds
NumKeys == 2
NumVals == 2
MaxBatch == 2
MaxWrites == 3
MaxBoots == 2
MaxFaults == 1
MaxAdmin == 1

Keys == 1..NumKeys
Vals == 1..NumVals
Leaf == 0..NumVals
Trees == [Keys -> Leaf]
Writers == {"w1", "w2"}

\* H256::zero(): the zero digest, also the root of the empty tree.
ZeroRoot == 0
\* Trusted-state file: missing, or present but not parseable.
NoFile == -1
Corrupt == -2

\* ---------------------------------------------------------------- SMT
RECURSIVE Pow(_, _)
Pow(b, e) == IF e = 0 THEN 1 ELSE b * Pow(b, e - 1)

RECURSIVE RootUpTo(_, _)
RootUpTo(t, k) == IF k = 0 THEN 0 ELSE t[k] * Pow(NumVals + 1, k - 1) + RootUpTo(t, k - 1)

\* SmtStore::get_root: the root commits to exactly the set of leaves.
Root(t) == RootUpTo(t, NumKeys)

EmptyTree == [k \in Keys |-> 0]
Roots == {Root(t) : t \in Trees}

SeqKeys(s) == {s[i][1] : i \in DOMAIN s}
KeySet(keys) == {keys[i] : i \in DOMAIN keys}
LeafOf(s, k) == s[CHOOSE i \in DOMAIN s : s[i][1] = k][2]
Zip(a, b) == [i \in DOMAIN a |-> <<a[i], b[i]>>]

\* SmtStore::generate_proof: the siblings along the union of the keys' paths,
\* i.e. everything of the tree outside the proved keys.
GenerateProof(t, keys) ==
    [keys |-> KeySet(keys),
     sib |-> [k \in Keys |-> IF k \in KeySet(keys) THEN 0 ELSE t[k]]]

\* MerkleProof::compute_root: the root recomputed from the proof and candidate
\* leaves; a proof that does not fit the leaves is an Err (here -1).
ComputeRootResult(proof, leaves) ==
    IF leaves = <<>> \/ SeqKeys(leaves) # proof.keys \/ Len(leaves) # Cardinality(proof.keys)
    THEN -1
    ELSE Root([k \in Keys |-> IF k \in proof.keys THEN LeafOf(leaves, k) ELSE proof.sib[k]])

\* compute_root(...).unwrap_or_default(): an Err becomes the zero digest.
ComputeRoot(proof, leaves) ==
    IF ComputeRootResult(proof, leaves) = -1 THEN ZeroRoot ELSE ComputeRootResult(proof, leaves)

\* A verifier that accepts every transition (sanity variant of VerifyWithOldValues).
AcceptAll(trusted_root, proposed_root, keys, old_values, new_values, proof) == TRUE
\* verify_smt_multi_update_proof_with_old_values
VerifyWithOldValues(trusted_root, proposed_root, keys, old_values, new_values, proof) ==
    IF Len(keys) # Len(old_values) \/ Len(keys) # Len(new_values)
    THEN FALSE
    ELSE /\ ComputeRoot(proof, Zip(keys, old_values)) = trusted_root
         /\ ComputeRoot(proof, Zip(keys, new_values)) = proposed_root

\* MerkleProof::verify (Result<bool>): an Err when the leaves do not fit the
\* proof, else Ok of whether the proof recomputes to the root.
ProofVerify(root, leaves, proof) ==
    IF ComputeRootResult(proof, leaves) = -1 THEN "Err"
    ELSE IF ComputeRootResult(proof, leaves) = root THEN "Ok(true)" ELSE "Ok(false)"

\* verify_smt_proof: proof.verify(root, leaves).is_ok().
VerifySmtProof(root, leaves, proof) == ProofVerify(root, leaves, proof) # "Err"

\* ---------------------------------------------------------------- state
VARIABLES
    rows,                 \* application rows: pk -> hash of the stored row, 0 = no row
    merkle_nodes,         \* table merkle_nodes: node_hash -> node_value, 0 = no record
    tree,                 \* SmtStore.tree, the in-memory SMT
    temporary_root,       \* RootManager.temporary_root
    main_root,            \* RootManager.main_root
    update_counter,       \* RootManager.update_counter
    commit_in_progress,   \* RootManager.commit_in_progress
    root_lock,            \* RootManager.root_lock: "free" or the task holding it
    commit_trigger,       \* RootManager.commit_trigger: a stored Notify permit
    last_committed_count, \* local of the background commit task
    bg,                   \* position of the background commit task
    batch_commit_size,    \* RootManager.batch_commit_size (BATCH_COMMIT_SIZE)
    anchor,               \* the root stored in the on-chain account
    file,                 \* trusted_state.json: a root, NoFile or Corrupt
    up,                   \* the process is running
    clear_db_mode,        \* the process was started with CLEAR_DB=true and a file to remove
    pending,              \* the process found a root in the file that the anchor did not hold
    boots,                \* process starts so far
    wpc, wroot, wsaved,   \* write handlers: position, proposed_root, file saved
    tx,                   \* the verifier call of the write in its critical section
    adm,                  \* position of the bootstrap handler
    shutdown,             \* main in its ctrl_c branch: "no", "commit", "return"
    rd,                   \* outcome of the last read_batch
    hist,                 \* every value temporary_root has held
    owed,                 \* the oldest batch-boundary root the anchor has not held yet
    failed,               \* the root and boot of the last background commit, if it failed
    asked,                \* the expected_root of the last write request
    answer,               \* the keys and the outcome of the last write request
    hashed,               \* the calls of hash_key / hash_value made, with the bytes hashed
    instances,            \* the advisory lock of the database and a second service instance
    writes, faults, admin, \* requests, injected failures, bootstrap calls so far
    env                   \* what the environment does at most: clients and calls

db == <<rows, merkle_nodes, tree>>
roots == <<temporary_root, main_root, update_counter>>
sync == <<commit_in_progress, root_lock, commit_trigger>>
committer == <<last_committed_count, bg>>
outside == <<anchor, file>>
process == <<batch_commit_size, up, clear_db_mode, pending, boots, env>>
writers == <<wpc, wroot, wsaved, tx>>
control == <<adm, shutdown, admin>>

vars == <<db, roots, sync, committer, outside, process, writers, control,
          rd, hist, owed, failed, asked, answer, hashed, instances, writes, faults>>

\* ---------------------------------------------------------------- write engine
\* A batch is a sequence of <<pk, row>>: the primary key and the row the
\* database returns for the record (RETURNING row_to_json), by its hash.
Records == Keys \X Vals
Batches == {b \in UNION {[1..n -> Records] : n \in 0..MaxBatch} :
                \A i, j \in DOMAIN b : i < j => b[i][1] < b[j][1]}
\* What can go wrong inside one call.
Faults == {"none", "validation", "sql", "old_read", "store", "commit"}

\* The INSERT (create) or INSERT .. ON CONFLICT DO UPDATE (upsert) statements,
\* one per record, inside the transaction: a create of an existing primary key
\* is a unique violation.
RECURSIVE ExecInserts(_, _, _)
ExecInserts(kind, r, batch) ==
    IF batch = <<>> THEN [ok |-> TRUE, rows |-> r]
    ELSE IF kind = "create" /\ r[Head(batch)[1]] # 0 THEN [ok |-> FALSE, rows |-> r]
    ELSE ExecInserts(kind, [r EXCEPT ![Head(batch)[1]] = Head(batch)[2]], Tail(batch))

\* The first n updates of a batch applied to a key/value map.
RECURSIVE ApplyUpdates(_, _, _)
ApplyUpdates(t, updates, n) ==
    IF n = 0 THEN t
    ELSE [ApplyUpdates(t, updates, n - 1) EXCEPT ![updates[n][1]] = updates[n][2]]

\* A transaction whose writes stay without a commit (sanity variant of RolledBack).
NotRolledBack(before, inTx) == inTx
\* What the database holds after a transaction that did not commit
\* (transaction.rollback(), or the Transaction dropped by `?`).
RolledBack(before, inTx) == before

\* SmtStore::apply_updates_in_tx, stopped by a set_in_tx error at update n
\* (n = Len(updates) + 1: no error): tree.update comes before set_in_tx.
ApplyUpdatesInTx(t, updates, n) ==
    ApplyUpdates(t, updates, IF n > Len(updates) THEN Len(updates) ELSE n)

\* The old leaf values read from merkle_nodes inside the transaction;
\* .unwrap_or_default() on a failed SELECT leaves every old value zero, and
\* the database fails every later statement of that transaction.
OldValues(keys, fault) ==
    [i \in DOMAIN keys |-> IF fault = "old_read" THEN 0 ELSE merkle_nodes[keys[i]]]

\* A service that takes an empty batch as any other (sanity variant of IsEmpty).
NeverEmpty(batch) == FALSE
\* records_data.is_empty(), checked before the transaction is opened.
IsEmpty(batch) == batch = <<>>

\* DatabaseService::create_records / upsert_records on the current state.
CreateRecords(kind, batch, trusted_root, fault, failAt) ==
    LET ins == ExecInserts(kind, rows, batch)
        keys == [i \in DOMAIN batch |-> batch[i][1]]
        news == [i \in DOMAIN batch |-> batch[i][2]]
        proof == GenerateProof(tree, keys)
        olds == OldValues(keys, fault)
        proposed == ComputeRoot(proof, Zip(keys, news))
        ok == VerifyWithOldValues(trusted_root, proposed, keys, olds, news, proof)
        call == [trusted_root |-> trusted_root, proposed_root |-> proposed,
                 keys |-> keys, old_values |-> olds, new_values |-> news,
                 proof |-> proof, stored |-> [i \in DOMAIN keys |-> merkle_nodes[keys[i]]]]
        Err(e, r, m, t) == [ok |-> FALSE, err |-> e, rows |-> r, merkle_nodes |-> m,
                            tree |-> t, proposed_root |-> proposed, call |-> call]
    IN  IF fault = "validation" /\ batch # <<>> THEN Err("validation", rows, merkle_nodes, tree)
        ELSE IF IsEmpty(batch) THEN Err("empty", rows, merkle_nodes, tree)
        ELSE IF fault = "sql" \/ ~ins.ok
            THEN Err("sql", RolledBack(rows, ins.rows), merkle_nodes, tree)
        ELSE IF ~ok
            THEN Err("proof", RolledBack(rows, ins.rows), merkle_nodes, tree)
        ELSE IF fault = "old_read"
            THEN Err("store", RolledBack(rows, ins.rows),
                     RolledBack(merkle_nodes, merkle_nodes),
                     ApplyUpdatesInTx(tree, batch, 1))
        ELSE IF fault = "store"
            THEN Err("store", RolledBack(rows, ins.rows),
                     RolledBack(merkle_nodes, ApplyUpdates(merkle_nodes, batch, failAt - 1)),
                     ApplyUpdatesInTx(tree, batch, failAt))
        ELSE IF fault = "commit"
            THEN Err("commit", RolledBack(rows, ins.rows),
                     RolledBack(merkle_nodes, ApplyUpdates(merkle_nodes, batch, Len(batch))),
                     ApplyUpdatesInTx(tree, batch, Len(batch) + 1))
        ELSE [ok |-> TRUE, err |-> "none", rows |-> ins.rows,
              merkle_nodes |-> ApplyUpdates(merkle_nodes, batch, Len(batch)),
              tree |-> ApplyUpdatesInTx(tree, batch, Len(batch) + 1),
              proposed_root |-> proposed, call |-> call]

\* ---------------------------------------------------------------- root manager
\* RootManager::save_root_to_file: fs::write may fail and leave the file as it was.
SaveRootToFile(root, ok) == IF ok THEN root ELSE file

\* A lock that admits a task while another holds it (sanity variant of LockRoot).
LockRootShared == TRUE
\* RootManager::lock_root (and root_lock.lock() inside the manager) returns: the
\* tokio Mutex is free.
LockRoot == root_lock = "free"

\* An operation that can fail is given its outcome; failures are counted.
Outcome(ok) ==
    /\ ~ok => faults < env.faults
    /\ faults' = IF ok THEN faults ELSE faults + 1

\* No call in progress.
NoCall == [trusted_root |-> 0, proposed_root |-> 0, keys |-> <<>>, old_values |-> <<>>,
           new_values |-> <<>>, proof |-> GenerateProof(EmptyTree, <<>>), stored |-> <<>>]

\* The optimistic-concurrency roots a request may carry (none: NoExpected).
NoExpected == -1
ExpectedRoots == {NoExpected, temporary_root, main_root, ZeroRoot}

\* What a write request was answered: its keys, the error (none: applied) and
\* the keys a proof was requested for (create_records and upsert_records
\* return validation, empty-batch and SQL errors before generate_proof).
NoAnswer == [keys |-> <<>>, err |-> "none", probed |-> <<>>]
Answer(kind, batch, fault, failAt) ==
    LET res == CreateRecords(kind, batch, temporary_root, fault, failAt)
        keys == [i \in DOMAIN batch |-> batch[i][1]]
    IN  [keys |-> keys, err |-> res.err,
         probed |-> IF res.err \in {"validation", "empty", "sql"} THEN <<>> ELSE keys]

\* A handler that never answers ROOT_CHANGED (sanity variant of RootChanged).
RootNeverChanged(expected, current) == FALSE
\* The optimistic-concurrency check of the write handlers: the request carries
\* an expected_root and it is not the current temporary_root.
RootChanged(expected, current) == expected # NoExpected /\ expected # current

\* create_batch_handler / upsert_batch_handler up to the return of
\* create_records / upsert_records: take the root lock, check expected_root,
\* coerce, read trusted_root, run the transaction. On an error the handler
\* returns (the guards drop); on success it goes on, holding the lock.
WriteBatch(kind, batch, expected, fault, failAt) ==
    /\ up /\ LockRoot /\ writes < env.writes
    /\ \E w \in env.writers : wpc[w] = "idle"
    /\ Outcome(fault = "none")
    /\ writes' = writes + 1
    /\ IF RootChanged(expected, temporary_root)
       THEN UNCHANGED <<db, root_lock, writers>>
       ELSE LET res == CreateRecords(kind, batch, temporary_root, fault, failAt) IN
            /\ rows' = res.rows
            /\ merkle_nodes' = res.merkle_nodes
            /\ tree' = res.tree
            /\ tx' = IF res.ok THEN res.call ELSE NoCall
            /\ IF res.ok
               THEN \E w \in env.writers :
                    /\ wpc[w] = "idle"
                    /\ root_lock' = w
                    /\ wpc' = [wpc EXCEPT ![w] = "advance"]
                    /\ wroot' = [wroot EXCEPT ![w] = res.proposed_root]
               ELSE UNCHANGED <<root_lock, wpc, wroot>>
            /\ UNCHANGED wsaved
    /\ UNCHANGED <<roots, commit_in_progress, commit_trigger, committer, outside,
                   process, control, rd, hist, owed, failed>>

\* RootManager::update_temporary_root, first half: wait until no commit is in
\* progress, then save the new root to the trusted-state file FIRST.
AdvanceFile(w, ok) ==
    /\ up /\ w \in env.writers /\ wpc[w] = "advance" /\ ~commit_in_progress
    /\ Outcome(ok)
    /\ file' = SaveRootToFile(wroot[w], ok)
    /\ wsaved' = [wsaved EXCEPT ![w] = ok]
    /\ wpc' = [wpc EXCEPT ![w] = "memory"]
    /\ UNCHANGED <<db, roots, sync, committer, anchor, process, wroot, tx, control,
                   rd, hist, owed, failed, asked, answer, hashed, instances, writes>>

\* RootManager::update_temporary_root, second half, and the handler's drop of
\* its guards: set temporary_root, count the update, notify the committer when
\* the count is a multiple of the batch size. A write that triggers no commit
\* is answered at once; one that does waits for the commit first.
TriggersCommit(count) == count % batch_commit_size = 0

AdvanceMemory(w) ==
    /\ up /\ w \in env.writers /\ wpc[w] = "memory"
    /\ temporary_root' = wroot[w]
    /\ update_counter' = update_counter + 1
    /\ commit_trigger' = (commit_trigger \/ TriggersCommit(update_counter + 1))
    /\ root_lock' = "free"
    /\ wpc' = [wpc EXCEPT ![w] = IF TriggersCommit(update_counter + 1) THEN "wait" ELSE "idle"]
    /\ wroot' = [wroot EXCEPT ![w] = 0]
    /\ wsaved' = [wsaved EXCEPT ![w] = wsaved[w] /\ TriggersCommit(update_counter + 1)]
    /\ tx' = NoCall
    /\ UNCHANGED <<db, main_root, commit_in_progress, committer, outside, process,
                   control, rd, writes, faults>>

\* RootManager::wait_for_commit_completion (sleep, then poll until
\* commit_in_progress is false), then the handler's 200 response.
WaitForCommitCompletion(w) ==
    /\ up /\ w \in env.writers /\ wpc[w] = "wait" /\ ~commit_in_progress
    /\ wpc' = [wpc EXCEPT ![w] = "idle"]
    /\ wsaved' = [wsaved EXCEPT ![w] = FALSE]
    /\ UNCHANGED <<db, roots, sync, committer, outside, process, wroot, tx, control,
                   rd, hist, owed, failed, asked, answer, hashed, instances, writes, faults>>

\* ---------------------------------------------------------------- background committer
\* A committer that commits at any new count (sanity variant of CommitDue).
CommitAnyCount(count, last) == count > last
\* The condition of check_and_commit_if_needed.
CommitDue(count, last) ==
    count > 0 /\ count % batch_commit_size = 0 /\ count > last

\* A committer that does not wait for the root lock (sanity variant of RootGuard).
NoRootGuard == TRUE
\* check_and_commit_if_needed: its own root_lock.lock() returns.
RootGuard == root_lock = "free"

\* start_background_commit_task woken by the interval tick (trigger = FALSE) or
\* by commit_trigger (trigger = TRUE), then check_and_commit_if_needed up to the
\* anchor write: under the root lock, either start a commit or return.
BackgroundCheck(trigger) ==
    /\ up /\ bg = "wait" /\ RootGuard
    /\ trigger => commit_trigger
    /\ commit_trigger' = IF trigger THEN FALSE ELSE commit_trigger
    /\ IF CommitDue(update_counter, last_committed_count)
       THEN IF temporary_root # main_root
            THEN /\ commit_in_progress' = TRUE
                 /\ root_lock' = "bg"
                 /\ bg' = "commit"
                 /\ UNCHANGED last_committed_count
            ELSE /\ last_committed_count' = update_counter
                 /\ UNCHANGED <<commit_in_progress, root_lock, bg>>
       ELSE UNCHANGED <<commit_in_progress, root_lock, bg, last_committed_count>>
    /\ UNCHANGED <<db, roots, outside, process, writers, control, rd, hist, owed, failed, asked, answer, hashed, instances, writes, faults>>

\* A commit that publishes the root of the in-memory tree (sanity variant of
\* CommitTemporaryToMain).
CommitTreeRoot(ok) ==
    /\ anchor' = IF ok THEN Root(tree) ELSE anchor
    /\ main_root' = IF ok THEN Root(tree) ELSE main_root
\* RootManager::commit_temporary_to_main: write_root(temporary_root); on
\* success main_root follows.
CommitTemporaryToMain(ok) ==
    /\ anchor' = IF ok THEN temporary_root ELSE anchor
    /\ main_root' = IF ok THEN temporary_root ELSE main_root

\* commit_temporary_to_main inside check_and_commit_if_needed, then the flag is
\* cleared and the lock released.
BackgroundCommit(ok) ==
    /\ up /\ bg = "commit"
    /\ Outcome(ok)
    /\ CommitTemporaryToMain(ok)
    /\ last_committed_count' = IF ok THEN update_counter ELSE last_committed_count
    /\ commit_in_progress' = FALSE
    /\ root_lock' = "free"
    /\ bg' = "wait"
    /\ UNCHANGED <<db, temporary_root, update_counter, commit_trigger, file, process,
                   writers, control, rd, hist, writes>>

\* ---------------------------------------------------------------- reader
\* The id lists a read request may carry.
IdLists == {ids \in UNION {[1..n -> Keys] : n \in 1..NumKeys} :
                \A i, j \in DOMAIN ids : i < j => ids[i] < ids[j]}

\* The records of a read: the requested rows that exist, in request order.
RECURSIVE Found(_, _)
Found(ids, n) ==
    IF n = 0 THEN <<>>
    ELSE IF rows[ids[n]] # 0 THEN Append(Found(ids, n - 1), <<ids[n], rows[ids[n]]>>)
         ELSE Found(ids, n - 1)

\* A reader that trusts the anchored root (sanity variant of ReadTrustedRoot).
ReadAnchoredRoot == main_root
\* read_batch_handler: the root a read is verified against.
ReadTrustedRoot == temporary_root

\* DatabaseService::get_records_with_proof and the verification in
\* read_batch_handler: the proof covers every requested key, the leaves are
\* rebuilt from the rows found, the root is the current temporary_root.
NoRead == <<"none", FALSE>>
ReadResult(ids) ==
    LET found == Found(ids, Len(ids))
        proof == GenerateProof(tree, ids)
    IN  IF found = <<>> THEN <<"not_found", FALSE>>
        ELSE IF VerifySmtProof(ReadTrustedRoot, found, proof)
             THEN <<"verified", Len(found) = Len(ids)>>
             ELSE <<"rejected", Len(found) = Len(ids)>>

\* A reader that does not wait for the database service (sanity variant of
\* LockDbService).
DbServiceShared == TRUE
\* state.db_service.lock() returns: the write and bootstrap handlers hold the
\* database service from before their first statement until after their last
\* change of the roots, the committer and main never take it.
LockDbService == root_lock \notin Writers \cup {"adm"}

\* read_batch_handler: takes the database service lock only.
ReadBatch(ids) ==
    /\ up /\ LockDbService
    /\ rd' = ReadResult(ids)
    /\ UNCHANGED <<db, roots, sync, committer, outside, process, writers, control,
                   hist, owed, failed, asked, answer, hashed, instances, writes, faults>>

\* ---------------------------------------------------------------- bootstrap handlers
\* bootstrap_clear_data_handler up to the anchor write: root lock, database
\* service lock, clear_db (one DELETE per managed table, then DELETE FROM
\* merkle_nodes, each on its own; then the SMT reloaded). When the second
\* DELETE fails the handler returns the error.
ClearData(fault) ==
    /\ up /\ LockRoot /\ adm = "idle" /\ admin < env.admin
    /\ admin' = admin + 1
    /\ Outcome(fault = "none")
    /\ rows' = EmptyTree
    /\ IF fault = "none"
       THEN /\ merkle_nodes' = EmptyTree /\ tree' = EmptyTree
            /\ root_lock' = "adm"
            /\ adm' = "clear_anchor"
       ELSE UNCHANGED <<merkle_nodes, tree, root_lock, adm>>
    /\ UNCHANGED <<roots, commit_in_progress, commit_trigger, committer, outside,
                   process, writers, shutdown, rd, hist, owed, failed, asked, answer, hashed, instances, writes>>

\* bootstrap_apply_schema_handler with a schema change up to the anchor write:
\* root lock, database service lock, needs_reset.
ApplySchema ==
    /\ up /\ LockRoot /\ adm = "idle" /\ admin < env.admin
    /\ admin' = admin + 1
    /\ root_lock' = "adm"
    /\ adm' = "schema_anchor"
    /\ UNCHANGED <<db, roots, commit_in_progress, commit_trigger, committer, outside,
                   process, writers, shutdown, rd, hist, owed, failed, asked, answer, hashed, instances, writes, faults>>

\* solana::write_root(H256::zero()) of either handler. clear-data returns on a
\* failure; apply-schema ignores the result.
WriteZeroRoot(ok) ==
    /\ up /\ adm \in {"clear_anchor", "schema_anchor"}
    /\ Outcome(ok)
    /\ anchor' = IF ok THEN ZeroRoot ELSE anchor
    /\ IF adm = "clear_anchor" /\ ~ok
       THEN adm' = "idle" /\ root_lock' = "free"
       ELSE /\ adm' = (IF adm = "clear_anchor" THEN "clear_reset" ELSE "schema_reset")
            /\ UNCHANGED root_lock
    /\ UNCHANGED <<db, roots, commit_in_progress, commit_trigger, committer, file,
                   process, writers, shutdown, admin, rd, hist, owed, failed, asked, answer, hashed, instances, writes>>

\* RootManager::reset_roots(zero), in apply-schema after
\* clear_trusted_state_file: both roots, the counter, the file. clear-data
\* returns after it.
ResetRoots(ok) ==
    /\ up /\ adm \in {"clear_reset", "schema_reset"}
    /\ Outcome(ok)
    /\ main_root' = ZeroRoot
    /\ temporary_root' = ZeroRoot
    /\ update_counter' = 0
    /\ file' = IF ok THEN ZeroRoot ELSE IF adm = "schema_reset" THEN NoFile ELSE file
    /\ IF adm = "clear_reset"
       THEN adm' = "idle" /\ root_lock' = "free"
       ELSE adm' = "schema_db" /\ UNCHANGED root_lock
    /\ UNCHANGED <<db, commit_in_progress, commit_trigger, committer, anchor, process,
                   writers, shutdown, admin, rd, writes>>

\* bootstrap_apply_schema_handler after the roots: the managed tables dropped,
\* merkle_nodes truncated, the SMT store reset; the handler returns.
ResetDatabase ==
    /\ up /\ adm = "schema_db"
    /\ rows' = EmptyTree /\ merkle_nodes' = EmptyTree /\ tree' = EmptyTree
    /\ adm' = "idle" /\ root_lock' = "free"
    /\ UNCHANGED <<roots, commit_in_progress, commit_trigger, committer, outside,
                   process, writers, shutdown, admin, rd, hist, owed, failed, asked, answer, hashed, instances, writes, faults>>

\* The orders in which a rebuild may meet the keys of the rows it scans.
ScanOrders == {o \in [1..NumKeys -> Keys] : \A i, j \in 1..NumKeys : i # j => o[i] # o[j]}

\* The keys of the rows SELECT returns, in scan order.
ScanRows(order) ==
    LET Exists(k) == rows[k] # 0 IN SelectSeq(order, Exists)

\* The leaves after the first n updates of a scan into an empty SMT.
RECURSIVE Updated(_, _)
Updated(scan, n) ==
    IF n = 0 THEN EmptyTree ELSE [Updated(scan, n - 1) EXCEPT ![scan[n]] = rows[scan[n]]]

\* A count of the keys scanned, with or without a row (sanity variant of
\* UpdatedLeaves).
ScannedKeys(order) == Len(order)
\* rebuild_smt_from_db: updated_leaves, one per row scanned.
UpdatedLeaves(order) == Len(ScanRows(order))

\* DatabaseService::rebuild_smt_from_db: merkle_nodes truncated, a fresh SMT,
\* then SmtStore::update per row (tree.update, then db_store.set, each set on
\* its own). failAt is the update whose set fails (past the last: none).
RebuildSmtFromDb(order, failAt) ==
    LET scan == ScanRows(order)
        ok == failAt > Len(scan)
        n == IF ok THEN Len(scan) ELSE failAt
    IN  [ok |-> ok,
         merkle_nodes |-> Updated(scan, IF ok THEN n ELSE n - 1),
         tree |-> Updated(scan, n),
         new_root |-> Root(Updated(scan, n)),
         updated_leaves |-> UpdatedLeaves(order)]

\* bootstrap_repair_roots_handler / bootstrap_migrate_handler: root lock,
\* database service lock, rebuild (on its error the handler returns), then
\* force_set_roots_and_commit, whose first statement locks the root lock the
\* handler already holds.
RepairRoots(order, failAt) ==
    /\ up /\ LockRoot /\ adm = "idle" /\ admin < env.admin
    /\ admin' = admin + 1
    /\ LET res == RebuildSmtFromDb(order, failAt) IN
        /\ Outcome(res.ok)
        /\ merkle_nodes' = res.merkle_nodes /\ tree' = res.tree
        /\ IF res.ok
           THEN root_lock' = "adm" /\ adm' = "force_set"
           ELSE UNCHANGED <<root_lock, adm>>
    /\ UNCHANGED <<rows, roots, commit_in_progress, commit_trigger, committer, outside,
                   process, writers, shutdown, rd, hist, owed, failed, asked, answer, hashed, instances, writes>>

\* RootManager::force_set_roots_and_commit called by a task that does not hold
\* the root lock, up to its anchor write: take the lock, set commit_in_progress,
\* save the file (an error is only logged), set temporary_root.
ForceSetRoots(new_root, ok) ==
    /\ up /\ LockRoot /\ adm = "idle" /\ admin < env.admin
    /\ admin' = admin + 1
    /\ Outcome(ok)
    /\ root_lock' = "adm"
    /\ commit_in_progress' = TRUE
    /\ file' = SaveRootToFile(new_root, ok)
    /\ temporary_root' = new_root
    /\ adm' = "forced"
    /\ UNCHANGED <<db, main_root, update_counter, commit_trigger, committer, anchor,
                   process, writers, shutdown, rd, hist, owed, failed, asked, answer, hashed, instances, writes>>

\* force_set_roots_and_commit from write_root to its return: on success
\* main_root is the new root and the counter restarts, on failure the error is
\* returned; the flag is cleared and the lock released on both paths.
ForceSetCommit(ok) ==
    /\ up /\ adm = "forced"
    /\ Outcome(ok)
    /\ CommitTemporaryToMain(ok)
    /\ update_counter' = IF ok THEN 0 ELSE update_counter
    /\ commit_in_progress' = FALSE
    /\ root_lock' = "free"
    /\ adm' = "idle"
    /\ UNCHANGED <<db, temporary_root, commit_trigger, committer, file, process, writers,
                   shutdown, admin, rd, hist, owed, failed, asked, answer, hashed, instances, writes>>

\* ---------------------------------------------------------------- process
\* What a process exit leaves of the memory.
Exit ==
    /\ up' = FALSE /\ clear_db_mode' = FALSE /\ pending' = FALSE
    /\ tree' = EmptyTree
    /\ temporary_root' = ZeroRoot /\ main_root' = ZeroRoot
    /\ update_counter' = 0 /\ commit_in_progress' = FALSE /\ root_lock' = "free"
    /\ commit_trigger' = FALSE /\ last_committed_count' = 0
    /\ bg' = "stopped"
    /\ wpc' = [w \in env.writers |-> "idle"] /\ wroot' = [w \in env.writers |-> 0]
    /\ wsaved' = [w \in env.writers |-> FALSE]
    /\ tx' = NoCall
    /\ adm' = "idle" /\ shutdown' = "no"
    /\ rd' = NoRead

\* main on ctrl_c: commit_pending_root takes the root lock; with nothing
\* pending the process exits, else it sets commit_in_progress and commits.
CommitPendingRoot ==
    /\ up /\ LockRoot /\ shutdown = "no" /\ admin < env.admin
    /\ admin' = admin + 1
    /\ IF temporary_root # main_root
       THEN /\ root_lock' = "main"
            /\ commit_in_progress' = TRUE
            /\ shutdown' = "commit"
            /\ UNCHANGED <<db, roots, commit_trigger, committer, process, writers, adm, rd>>
       ELSE Exit /\ UNCHANGED <<rows, merkle_nodes, batch_commit_size, boots, env>>
    /\ UNCHANGED <<outside, hist, owed, failed, asked, answer, hashed, instances, writes, faults>>

\* commit_temporary_to_main inside commit_pending_root, then its return: the
\* root lock is released, commit_in_progress stays as it was set.
ShutdownCommit(ok) ==
    /\ up /\ shutdown = "commit"
    /\ Outcome(ok)
    /\ CommitTemporaryToMain(ok)
    /\ root_lock' = "free"
    /\ shutdown' = "return"
    /\ UNCHANGED <<db, temporary_root, update_counter, commit_in_progress, commit_trigger,
                   committer, file, process, writers, adm, admin, rd, hist, owed, failed, asked, answer, hashed, instances, writes>>

\* main after commit_pending_root: RootManager::shutdown and the return of main.
MainReturns ==
    /\ up /\ shutdown = "return"
    /\ Exit
    /\ UNCHANGED <<rows, merkle_nodes, outside, batch_commit_size, boots, env, admin,
                   hist, owed, failed, asked, answer, hashed, instances, writes, faults>>

\* The process dies: everything in memory is gone; the database, the anchor and
\* the file stay. A death in the middle of an fs::write of the file may leave
\* it unreadable.
Crash ==
    /\ up /\ faults < env.faults
    /\ faults' = faults + 1
    /\ file' \in IF \E w \in env.writers : wpc[w] = "advance" /\ ~commit_in_progress
                 THEN {file, Corrupt} ELSE {file}
    /\ Exit
    /\ UNCHANGED <<rows, merkle_nodes, anchor, batch_commit_size, boots, env, admin, hist, owed, failed, asked, answer, hashed, writes>>

\* A startup that ignores the file (sanity variant of InitialTempRoot).
AnchorRootOnly(blockchain_root, f) == blockchain_root
\* RootManager::new: temporary_root after reading the anchor and the file.
InitialTempRoot(blockchain_root, f) ==
    IF f \notin {NoFile, Corrupt} /\ f # blockchain_root THEN f ELSE blockchain_root

\* RootManager::new: the file after startup (created when missing).
InitialFile(blockchain_root, f, ok) ==
    IF f = NoFile THEN (IF ok THEN blockchain_root ELSE NoFile) ELSE f

\* A counter that counts a pending root as one update (sanity variant of
\* InitialUpdateCounter).
PendingCounts(blockchain_root, f) ==
    IF f \notin {NoFile, Corrupt} /\ f # blockchain_root THEN 1 ELSE 0
\* RootManager::new: update_counter starts at 0 whatever the anchor and the
\* file hold.
InitialUpdateCounter(blockchain_root, f) == 0

\* main: RootManager::new (with CLEAR_DB=true it removes the file first; the
\* variable matters only when there is a file), the background task,
\* DatabaseService::new (the SMT is loaded from merkle_nodes).
Start(clear, ok) ==
    /\ ~up /\ boots < env.boots
    /\ clear => file # NoFile
    /\ Outcome(ok)
    /\ boots' = boots + 1
    /\ up' = TRUE /\ clear_db_mode' = clear
    /\ LET f == IF clear THEN NoFile ELSE file IN
        /\ temporary_root' = InitialTempRoot(anchor, f)
        /\ pending' = (InitialTempRoot(anchor, f) # anchor)
        /\ file' = InitialFile(anchor, f, ok)
    /\ main_root' = anchor
    /\ update_counter' = InitialUpdateCounter(anchor, file)
    /\ tree' = merkle_nodes
    /\ bg' = "wait"
    /\ UNCHANGED <<rows, merkle_nodes, sync, last_committed_count, batch_commit_size,
                   env, anchor, writers, control, rd, writes>>

\* ---------------------------------------------------------------- specification
\* A fresh deployment, not yet started: empty database, the anchor account
\* initialized with the zero root, no trusted-state file. B is the configured
\* BATCH_COMMIT_SIZE, e the environment.
InitWith(B, e) ==
    /\ rows = EmptyTree /\ merkle_nodes = EmptyTree /\ tree = EmptyTree
    /\ temporary_root = ZeroRoot /\ main_root = ZeroRoot
    /\ update_counter = 0 /\ commit_in_progress = FALSE /\ root_lock = "free"
    /\ commit_trigger = FALSE /\ last_committed_count = 0
    /\ bg = "stopped"
    /\ batch_commit_size \in B
    /\ anchor = ZeroRoot /\ file = NoFile
    /\ up = FALSE /\ clear_db_mode = FALSE /\ pending = FALSE /\ boots = 0
    /\ env = e
    /\ wpc = [w \in e.writers |-> "idle"] /\ wroot = [w \in e.writers |-> 0]
    /\ wsaved = [w \in e.writers |-> FALSE]
    /\ tx = NoCall
    /\ adm = "idle" /\ shutdown = "no"
    /\ rd = NoRead /\ hist = {} /\ owed = {} /\ failed = {} /\ asked = NoExpected /\ answer = NoAnswer /\ hashed = {}
    /\ instances = [lock |-> {}, allow |-> {}, second |-> "down"]
    /\ writes = 0 /\ faults = 0 /\ admin = 0

\* The requests and the failures injected into them: a store failure happens at
\* one of the batch's updates.
Requests ==
    {r \in [kind : {"create", "upsert"}, batch : Batches, fault : Faults, failAt : 1..MaxBatch] :
        /\ (r.fault # "store" => r.failAt = 1)
        /\ (r.fault = "store" => r.failAt <= Len(r.batch))}

Write ==
    \E r \in Requests :
        \E expected \in (IF r.fault = "none" THEN ExpectedRoots ELSE {NoExpected}) :
            WriteBatch(r.kind, r.batch, expected, r.fault, r.failAt) /\ UNCHANGED <<asked, answer, hashed, instances>>

\* hist follows temporary_root while the process runs.
Tracked == hist' = IF up' THEN hist \cup {temporary_root'} ELSE hist

\* owed takes the root of a write that makes the count a multiple of the batch
\* size while the anchor does not hold it, and keeps it until the anchor does.
Owes(w) ==
    owed' = IF TriggersCommit(update_counter + 1) /\ owed = {} /\ wroot[w] # anchor
            THEN {wroot[w]} ELSE owed
Paid == owed' = owed \ {anchor'}

\* failed takes the root a background commit could not anchor, with the boot
\* it happened in, and loses it at the next background commit that succeeds.
Failed(ok) == failed' = IF ok THEN {} ELSE {<<temporary_root, boots>>}

\* The service with its clients, its operator and its failures.
Init == InitWith({2}, [writers |-> Writers, writes |-> MaxWrites, faults |-> MaxFaults,
                       admin |-> MaxAdmin, boots |-> MaxBoots])

Next ==
    \/ Write
    \/ \E w \in Writers, ok \in BOOLEAN : AdvanceFile(w, ok)
    \/ \E w \in Writers : AdvanceMemory(w) /\ UNCHANGED <<hist, owed, failed, asked, answer, hashed, instances>>
    \/ \E w \in Writers : WaitForCommitCompletion(w)
    \/ \E trigger \in BOOLEAN : BackgroundCheck(trigger)
    \/ \E ok \in BOOLEAN : BackgroundCommit(ok) /\ UNCHANGED <<owed, failed, asked, answer, hashed, instances>>
    \/ \E fault \in {"none", "nodes"} : ClearData(fault)
    \/ ApplySchema
    \/ \E ok \in BOOLEAN : WriteZeroRoot(ok)
    \/ \E ok \in BOOLEAN : ResetRoots(ok) /\ UNCHANGED <<hist, owed, failed, asked, answer, hashed, instances>>
    \/ ResetDatabase
    \/ \E order \in ScanOrders, failAt \in 1..(NumKeys + 1) : RepairRoots(order, failAt)
    \/ CommitPendingRoot
    \/ \E ok \in BOOLEAN : ShutdownCommit(ok)
    \/ MainReturns
    \/ Crash /\ UNCHANGED instances
    \/ \E m, ok \in BOOLEAN : Start(m, ok) /\ UNCHANGED <<hist, owed, failed, asked, answer, hashed, instances>>

Spec == Init /\ [][Next]_vars

\* The same service with the history of temporary_root recorded.
MaxWritesHist == 2
InitHist == InitWith({1, 2}, [writers |-> Writers, writes |-> MaxWritesHist, faults |-> MaxFaults,
                           admin |-> MaxAdmin, boots |-> MaxBoots])

NextHist ==
    \/ Write
    \/ \E w \in Writers, ok \in BOOLEAN : AdvanceFile(w, ok)
    \/ \E w \in Writers : AdvanceMemory(w) /\ Tracked /\ Owes(w) /\ UNCHANGED <<failed, asked, answer, hashed, instances>>
    \/ \E w \in Writers : WaitForCommitCompletion(w)
    \/ \E trigger \in BOOLEAN : BackgroundCheck(trigger)
    \/ \E ok \in BOOLEAN : BackgroundCommit(ok) /\ Paid /\ UNCHANGED <<failed, asked, answer, hashed, instances>>
    \/ \E fault \in {"none", "nodes"} : ClearData(fault)
    \/ ApplySchema
    \/ \E ok \in BOOLEAN : WriteZeroRoot(ok)
    \/ \E ok \in BOOLEAN : ResetRoots(ok) /\ Tracked /\ UNCHANGED <<owed, failed, asked, answer, hashed, instances>>
    \/ ResetDatabase
    \/ \E order \in ScanOrders, failAt \in 1..(NumKeys + 1) : RepairRoots(order, failAt)
    \/ CommitPendingRoot
    \/ \E ok \in BOOLEAN : ShutdownCommit(ok)
    \/ MainReturns
    \/ Crash /\ UNCHANGED instances
    \/ \E m, ok \in BOOLEAN : Start(m, ok) /\ Tracked /\ UNCHANGED <<owed, failed, asked, answer, hashed, instances>>

SpecHist == InitHist /\ [][NextHist]_vars

\* One client that issues its upserts one after another, no operator: the
\* scenarios of batched anchoring and of a restart in the middle of a batch.
MaxWritesSeq == 7
SeqRequests == {r \in Requests : r.kind = "upsert" /\ r.fault = "none" /\ Len(r.batch) = 1}
InitSeq == InitWith({1, 3}, [writers |-> {"w1"}, writes |-> MaxWritesSeq, faults |-> MaxFaults,
                             admin |-> 0, boots |-> MaxBoots])

NextSeq ==
    \/ \E r \in SeqRequests : WriteBatch(r.kind, r.batch, NoExpected, r.fault, r.failAt)
            /\ UNCHANGED <<asked, answer, hashed, instances>>
    \/ \E ok \in BOOLEAN : AdvanceFile("w1", ok)
    \/ AdvanceMemory("w1") /\ UNCHANGED <<hist, owed, failed, asked, answer, hashed, instances>>
    \/ WaitForCommitCompletion("w1")
    \/ \E trigger \in BOOLEAN : BackgroundCheck(trigger)
    \/ \E ok \in BOOLEAN : BackgroundCommit(ok) /\ Failed(ok)
            /\ UNCHANGED <<owed, asked, answer, hashed, instances>>
    \/ Crash /\ UNCHANGED instances
    \/ \E m, ok \in BOOLEAN : Start(m, ok) /\ UNCHANGED <<hist, owed, failed, asked, answer, hashed, instances>>

SpecSeq == InitSeq /\ [][NextSeq]_vars

\* The same service with readers.
MaxWritesRead == 2
InitRead == InitWith({2}, [writers |-> Writers, writes |-> MaxWritesRead, faults |-> MaxFaults,
                           admin |-> MaxAdmin, boots |-> MaxBoots])

NextRead ==
    \/ Next
    \/ \E ids \in IdLists : ReadBatch(ids)

SpecRead == InitRead /\ [][NextRead]_vars

\* The same service with one client and two failures in a run: a failed write
\* of the trusted-state file followed by a failed anchor write.
MaxWritesShutdown == 2
MaxFaultsShutdown == 2
InitShutdown == InitWith({2}, [writers |-> {"w1"}, writes |-> MaxWritesShutdown,
                               faults |-> MaxFaultsShutdown, admin |-> MaxAdmin,
                               boots |-> MaxBoots])

SpecShutdown == InitShutdown /\ [][Next]_vars

\* The root manager with one client and a task that calls
\* force_set_roots_and_commit without holding the root lock.
MaxWritesForce == 2
MaxFaultsForce == 2
InitForce == InitWith({2}, [writers |-> {"w1"}, writes |-> MaxWritesForce,
                            faults |-> MaxFaultsForce, admin |-> MaxAdmin,
                            boots |-> MaxBoots])

NextForce ==
    \/ \E r \in SeqRequests : WriteBatch(r.kind, r.batch, NoExpected, r.fault, r.failAt)
            /\ UNCHANGED <<asked, answer, hashed, instances>>
    \/ \E ok \in BOOLEAN : AdvanceFile("w1", ok)
    \/ AdvanceMemory("w1") /\ UNCHANGED <<hist, owed, failed, asked, answer, hashed, instances>>
    \/ WaitForCommitCompletion("w1")
    \/ \E trigger \in BOOLEAN : BackgroundCheck(trigger)
    \/ \E ok \in BOOLEAN : BackgroundCommit(ok) /\ UNCHANGED <<owed, failed, asked, answer, hashed, instances>>
    \/ \E new_root \in Roots, ok \in BOOLEAN : ForceSetRoots(new_root, ok)
    \/ \E ok \in BOOLEAN : ForceSetCommit(ok)
    \/ Crash /\ UNCHANGED instances
    \/ \E m, ok \in BOOLEAN : Start(m, ok) /\ UNCHANGED <<hist, owed, failed, asked, answer, hashed, instances>>

SpecForce == InitForce /\ [][NextForce]_vars

\* Two clients whose write requests carry an expected_root, recorded in asked.
MaxWritesExpected == 3
InitExpected == InitWith({2}, [writers |-> Writers, writes |-> MaxWritesExpected,
                               faults |-> MaxFaults, admin |-> 0, boots |-> MaxBoots])

NextExpected ==
    \/ \E r \in Requests :
        \E expected \in (IF r.fault = "none" THEN ExpectedRoots ELSE {NoExpected}) :
            WriteBatch(r.kind, r.batch, expected, r.fault, r.failAt) /\ asked' = expected /\ UNCHANGED <<answer, hashed, instances>>
    \/ \E w \in Writers, ok \in BOOLEAN : AdvanceFile(w, ok)
    \/ \E w \in Writers : AdvanceMemory(w) /\ UNCHANGED <<hist, owed, failed, asked, answer, hashed, instances>>
    \/ \E w \in Writers : WaitForCommitCompletion(w)
    \/ \E trigger \in BOOLEAN : BackgroundCheck(trigger)
    \/ \E ok \in BOOLEAN : BackgroundCommit(ok) /\ UNCHANGED <<owed, failed, asked, answer, hashed, instances>>
    \/ Crash /\ UNCHANGED instances
    \/ \E m, ok \in BOOLEAN : Start(m, ok) /\ UNCHANGED <<hist, owed, failed, asked, answer, hashed, instances>>

SpecExpected == InitExpected /\ [][NextExpected]_vars

\* One client whose batches hold one record, the same primary key twice, or
\* nothing; the answers are recorded.
MaxWritesDup == 3
DupBatches == {b \in [1..2 -> Records] : b[1][1] = b[2][1]}
SeqBatches == {b \in Batches : Len(b) = 1}
DupRequests == [kind : {"create", "upsert"}, batch : DupBatches \cup SeqBatches \cup {<<>>}]
InitDup == InitWith({2}, [writers |-> {"w1"}, writes |-> MaxWritesDup,
                          faults |-> MaxFaults, admin |-> 0, boots |-> MaxBoots])

NextDup ==
    \/ \E r \in DupRequests :
            /\ WriteBatch(r.kind, r.batch, NoExpected, "none", 1)
            /\ answer' = Answer(r.kind, r.batch, "none", 1)
            /\ UNCHANGED <<asked, hashed, instances>>
    \/ \E ok \in BOOLEAN : AdvanceFile("w1", ok)
    \/ AdvanceMemory("w1") /\ UNCHANGED <<hist, owed, failed, asked, answer, hashed, instances>>
    \/ WaitForCommitCompletion("w1")
    \/ \E trigger \in BOOLEAN : BackgroundCheck(trigger)
    \/ \E ok \in BOOLEAN : BackgroundCommit(ok) /\ UNCHANGED <<owed, failed, asked, answer, hashed, instances>>
    \/ Crash /\ UNCHANGED instances
    \/ \E m, ok \in BOOLEAN : Start(m, ok) /\ UNCHANGED <<hist, owed, failed, asked, answer, hashed, instances>>

SpecDup == InitDup /\ [][NextDup]_vars

\* The verifier alone, called with a trusted root, a proposed root, key and
\* value lists of any lengths and a proof generated for any keys of any tree.
MaxLen == 2
KeyLists == {ks \in UNION {[1..n -> Keys] : n \in 0..MaxLen} :
                \A i, j \in DOMAIN ks : i < j => ks[i] < ks[j]}
LeafLists == UNION {[1..n -> Leaf] : n \in 0..MaxLen}
ValLists == UNION {[1..n -> Vals] : n \in 0..MaxLen}

VerifierCall(trusted_root, proposed_root, keys, old_values, new_values, proof) ==
    /\ ~up /\ writes < env.writes
    /\ writes' = writes + 1
    /\ tx' = [trusted_root |-> trusted_root, proposed_root |-> proposed_root, keys |-> keys,
              old_values |-> old_values, new_values |-> new_values, proof |-> proof,
              stored |-> old_values]
    /\ answer' = [keys |-> keys,
                  err |-> IF VerifyWithOldValues(trusted_root, proposed_root, keys,
                                                 old_values, new_values, proof)
                          THEN "none" ELSE "proof",
                  probed |-> keys]
    /\ UNCHANGED <<db, roots, sync, committer, outside, process, wpc, wroot, wsaved,
                   control, rd, hist, owed, failed, asked, hashed, instances, faults>>

MaxCalls == 1
InitVerify == InitWith({2}, [writers |-> {"w1"}, writes |-> MaxCalls, faults |-> 0,
                             admin |-> 0, boots |-> 0])

NextVerify ==
    /\ writes < env.writes
    /\ \E t \in Trees, pkeys \in KeyLists, keys \in KeyLists,
       old_values \in LeafLists, new_values \in ValLists :
        \E trusted_root \in {Root(t), ZeroRoot} :
            \E proposed_root \in {ZeroRoot, Root(t),
                                   IF Len(keys) = Len(new_values)
                                   THEN ComputeRoot(GenerateProof(t, pkeys), Zip(keys, new_values))
                                   ELSE ZeroRoot} :
                VerifierCall(trusted_root, proposed_root, keys, old_values, new_values,
                             GenerateProof(t, pkeys))

SpecVerify == InitVerify /\ [][NextVerify]_vars

\* The hashing functions alone. Strings are sequences of characters; the
\* digest of two byte strings is the same exactly when the strings are.
NODE_DOMAIN == <<"V", "E", "R", "I", "F", "N", "O", "D", "E">>
\* One tag for leaves and keys (sanity variant of LEAF_DOMAIN).
SharedDomain == NODE_DOMAIN
LEAF_DOMAIN == <<"V", "E", "R", "I", "F", "L", "E", "A", "F">>

MaxName == 2
MaxHashes == 2
Strings(chars) == UNION {[1..n -> chars] : n \in 1..MaxName}
TableNames == Strings({"a", "{"})
PrimaryKeys == Strings({"a", "}"})
\* Rows as JSON objects: the fields present, each with a one-digit number.
Fields == {"a", "b"}
JsonRows == UNION {[fs -> {"1"}] : fs \in SUBSET Fields}

\* serde_json::to_string of the key-sorted object.
RECURSIVE Members(_, _)
Members(row, fs) ==
    IF fs = {} THEN <<>>
    ELSE LET f == CHOOSE x \in fs : \A y \in fs : x = y \/ (x = "a" /\ y = "b")
             rest == Members(row, fs \ {f})
         IN  <<"\"", f, "\"", ":", row[f]>> \o (IF rest = <<>> THEN <<>> ELSE <<",">> \o rest)
CanonicalString(row) == <<"{">> \o Members(row, DOMAIN row) \o <<"}">>

\* hash_value: the bytes fed to the hasher.
HashValueBytes(row) == LEAF_DOMAIN \o CanonicalString(row)
\* hash_key: the bytes fed to the hasher.
HashKeyBytes(table_name, primary_key) == NODE_DOMAIN \o table_name \o primary_key

HashKey(table_name, primary_key) ==
    /\ ~up /\ Cardinality(hashed) < MaxHashes
    /\ hashed' = hashed \cup {[fn |-> "hash_key", args |-> <<table_name, primary_key>>,
                               bytes |-> HashKeyBytes(table_name, primary_key)]}
    /\ UNCHANGED <<db, roots, sync, committer, outside, process, writers, control, rd,
                   hist, owed, failed, asked, answer, instances, writes, faults>>

HashValue(row) ==
    /\ ~up /\ Cardinality(hashed) < MaxHashes
    /\ hashed' = hashed \cup {[fn |-> "hash_value", args |-> <<row>>,
                               bytes |-> HashValueBytes(row)]}
    /\ UNCHANGED <<db, roots, sync, committer, outside, process, writers, control, rd,
                   hist, owed, failed, asked, answer, instances, writes, faults>>

InitHash == InitWith({2}, [writers |-> {"w1"}, writes |-> 0, faults |-> 0, admin |-> 0,
                           boots |-> 0])

NextHash ==
    \/ \E table_name \in TableNames, primary_key \in PrimaryKeys : HashKey(table_name, primary_key)
    \/ \E row \in JsonRows : HashValue(row)

SpecHash == InitHash /\ [][NextHash]_vars

\* Two service instances on one database. The first is the process of this
\* model, the second is known by its start only: "down", "serving" (its
\* DatabaseService::new returned Ok) or "refused" (it returned the error).
\* instances.lock holds the instances whose session has the advisory lock,
\* instances.allow those started with ALLOW_MULTI_INSTANCE=true.
AlwaysLocked(holders) == TRUE
\* SELECT pg_try_advisory_lock(4240001): true when no other session holds it.
TryAdvisoryLock(holders) == holders = {}

\* DatabaseService::new, from ALLOW_MULTI_INSTANCE to its return.
InstanceLock(i, allow_multi) ==
    IF allow_multi
    THEN [ok |-> TRUE, lock |-> instances.lock, allow |-> instances.allow \cup {i}]
    ELSE IF TryAdvisoryLock(instances.lock)
    THEN [ok |-> TRUE, lock |-> instances.lock \cup {i}, allow |-> instances.allow]
    ELSE [ok |-> FALSE, lock |-> instances.lock, allow |-> instances.allow]

\* The end of a process closes its database sessions.
Released(i) == [instances EXCEPT !.lock = @ \ {i}, !.allow = @ \ {i}]

StartFirst(clear, ok, allow_multi) ==
    LET res == InstanceLock(1, allow_multi) IN
    /\ res.ok
    /\ Start(clear, ok)
    /\ instances' = [instances EXCEPT !.lock = res.lock, !.allow = res.allow]
    /\ UNCHANGED <<hist, owed, failed, asked, answer, hashed>>

\* main when DatabaseService::new returns the error: RootManager::new has run,
\* the process ends.
FirstRefused(clear, ok) ==
    /\ ~up /\ boots < env.boots
    /\ ~InstanceLock(1, FALSE).ok
    /\ clear => file # NoFile
    /\ Outcome(ok)
    /\ boots' = boots + 1
    /\ file' = InitialFile(anchor, IF clear THEN NoFile ELSE file, ok)
    /\ UNCHANGED <<db, roots, sync, committer, anchor, batch_commit_size, up, clear_db_mode,
                   pending, env, writers, control, rd, hist, owed, failed, asked, answer,
                   hashed, instances, writes>>

CrashFirst == Crash /\ instances' = Released(1)

\* main of a second process in the same directory: RootManager::new (the file
\* removed with CLEAR_DB=true, created when missing), then DatabaseService::new.
StartSecond(clear, ok, allow_multi) ==
    LET res == InstanceLock(2, allow_multi) IN
    /\ instances.second = "down"
    /\ clear => file # NoFile
    /\ Outcome(ok)
    /\ file' = InitialFile(anchor, IF clear THEN NoFile ELSE file, ok)
    /\ instances' = [lock |-> res.lock, allow |-> res.allow,
                     second |-> IF res.ok THEN "serving" ELSE "refused"]
    /\ UNCHANGED <<db, roots, sync, committer, anchor, process, writers, control, rd,
                   hist, owed, failed, asked, answer, hashed, writes>>

StopSecond ==
    /\ instances.second # "down"
    /\ instances' = [Released(2) EXCEPT !.second = "down"]
    /\ UNCHANGED <<db, roots, sync, committer, outside, process, writers, control, rd,
                   hist, owed, failed, asked, answer, hashed, writes, faults>>

\* The instances whose DatabaseService::new returned Ok and that still run.
Serving == (IF up THEN {1} ELSE {}) \cup (IF instances.second = "serving" THEN {2} ELSE {})

MaxWritesInstance == 2
MaxBootsInstance == 3
InitInstance == InitWith({2}, [writers |-> {"w1"}, writes |-> MaxWritesInstance,
                               faults |-> MaxFaultsShutdown, admin |-> 0,
                               boots |-> MaxBootsInstance])

NextInstance ==
    \/ \E r \in SeqRequests : WriteBatch(r.kind, r.batch, NoExpected, r.fault, r.failAt)
            /\ UNCHANGED <<asked, answer, hashed, instances>>
    \/ \E ok \in BOOLEAN : AdvanceFile("w1", ok)
    \/ AdvanceMemory("w1") /\ UNCHANGED <<hist, owed, failed, asked, answer, hashed, instances>>
    \/ WaitForCommitCompletion("w1")
    \/ \E trigger \in BOOLEAN : BackgroundCheck(trigger)
    \/ \E ok \in BOOLEAN : BackgroundCommit(ok) /\ UNCHANGED <<owed, failed, asked, answer, hashed, instances>>
    \/ \E m, ok, allow_multi \in BOOLEAN : StartFirst(m, ok, allow_multi)
    \/ \E m, ok \in BOOLEAN : FirstRefused(m, ok)
    \/ CrashFirst
    \/ \E m, ok, allow_multi \in BOOLEAN : StartSecond(m, ok, allow_multi)
    \/ StopSecond

SpecInstance == InitInstance /\ [][NextInstance]_vars

\* One client and an operator who only stops the service with ctrl_c and
\* starts it again: every restart follows a graceful shutdown.
MaxWritesWarm == 3
InitWarm == InitWith({2}, [writers |-> {"w1"}, writes |-> MaxWritesWarm, faults |-> MaxFaults,
                           admin |-> MaxAdmin, boots |-> MaxBoots])

NextWarm ==
    \/ \E r \in SeqRequests : WriteBatch(r.kind, r.batch, NoExpected, r.fault, r.failAt)
            /\ UNCHANGED <<asked, answer, hashed, instances>>
    \/ \E ok \in BOOLEAN : AdvanceFile("w1", ok)
    \/ AdvanceMemory("w1") /\ UNCHANGED <<hist, owed, failed, asked, answer, hashed, instances>>
    \/ WaitForCommitCompletion("w1")
    \/ \E trigger \in BOOLEAN : BackgroundCheck(trigger)
    \/ \E ok \in BOOLEAN : BackgroundCommit(ok) /\ UNCHANGED <<owed, failed, asked, answer, hashed, instances>>
    \/ CommitPendingRoot
    \/ \E ok \in BOOLEAN : ShutdownCommit(ok)
    \/ MainReturns
    \/ \E m, ok \in BOOLEAN : Start(m, ok) /\ UNCHANGED <<hist, owed, failed, asked, answer, hashed, instances>>

SpecWarm == InitWarm /\ [][NextWarm]_vars

\* ---------------------------------------------------------------- properties
\* The tasks inside a root-lock critical section, by their positions.
InCriticalSection ==
    {w \in env.writers : wpc[w] \in {"advance", "memory"}}
    \cup (IF bg = "commit" THEN {"bg"} ELSE {})
    \cup (IF adm # "idle" THEN {"adm"} ELSE {})
    \cup (IF shutdown = "commit" THEN {"main"} ELSE {})

\* C1: a create_records / upsert_records call that returns an error (the
\* request is counted and the handler does not go on into the advance) leaves
\* rows, merkle_nodes, temporary_root and the trusted-state file as they were.
C1_ErrorLeavesNoEffect ==
    [][(writes' = writes + 1 /\ root_lock' = "free")
        => /\ rows' = rows
           /\ merkle_nodes' = merkle_nodes
           /\ temporary_root' = temporary_root
           /\ file' = file]_vars

\* A node-store or commit failure has been returned: the in-memory tree kept
\* the batch, the database and the root did not.
C1_Witness ==
    /\ up /\ root_lock = "free" /\ faults = 1
    /\ tree # merkle_nodes
    /\ rows = merkle_nodes
    /\ temporary_root = Root(merkle_nodes)

\* C2: while a successful write is in its critical section, the root it
\* verified against is the temporary_root held before the write, the old
\* values it passed are the leaf values stored before the write, the proof
\* recomputes that root from them and the proposed_root from the new values;
\* the advance then sets temporary_root to the returned proposed_root.
C2_TransitionSound ==
    /\ [](\A w \in env.writers : wpc[w] \in {"advance", "memory"} =>
            /\ tx.trusted_root = temporary_root
            /\ tx.proposed_root = wroot[w]
            /\ tx.old_values = tx.stored
            /\ ComputeRoot(tx.proof, Zip(tx.keys, tx.stored)) = temporary_root
            /\ ComputeRoot(tx.proof, Zip(tx.keys, tx.new_values)) = wroot[w])
    /\ [][\A w \in env.writers : (wpc[w] = "memory" /\ wpc'[w] # "memory" /\ up')
            => temporary_root' = wroot[w]]_vars

\* A verified batch that holds a new key (old value zero) and an existing key
\* (old value non-zero) is about to advance the root.
C2_Witness ==
    \E w \in env.writers :
        /\ wpc[w] = "memory"
        /\ \E i, j \in DOMAIN tx.keys : tx.stored[i] = 0 /\ tx.stored[j] # 0
        /\ wroot[w] # temporary_root

\* C3: while only successful batches have been written (no failure injected,
\* no bootstrap call), a read_batch whose ids all exist returns records that
\* verify, with the returned proof, against the current temporary_root.
C3_ReadVerifies ==
    [][(rd' # rd /\ faults = 0 /\ admin = 0 /\ rd'[2]) =>
            /\ rd'[1] = "verified"
            /\ \A ids \in IdLists :
                    Len(Found(ids, Len(ids))) = Len(ids) =>
                        ProofVerify(ReadTrustedRoot, Found(ids, Len(ids)),
                                    GenerateProof(tree, ids)) = "Ok(true)"]_vars

\* A read of two existing rows, one created and later upserted, verified
\* while nothing had failed.
C3_Witness ==
    /\ rd = <<"verified", TRUE>>
    /\ faults = 0 /\ admin = 0 /\ writes = 2
    /\ \A k \in Keys : rows[k] # 0
    /\ temporary_root = Root(rows)

\* C4: at most one task is inside a root-lock critical section, that task is
\* the holder of the lock, and while the process runs every change of
\* temporary_root, main_root, update_counter or the file is made while the
\* lock is held.
C4_SingleWriter ==
    /\ [](/\ Cardinality(InCriticalSection) <= 1
          /\ InCriticalSection = (IF root_lock = "free" THEN {} ELSE {root_lock}))
    /\ [][(up /\ up' /\ <<temporary_root, main_root, update_counter, file>>'
                        # <<temporary_root, main_root, update_counter, file>>)
            => root_lock # "free"]_vars

\* A writer is in its critical section while the committer has been notified
\* and another handler is done: the committer has to wait for the lock.
C4_Witness ==
    /\ root_lock \in env.writers
    /\ commit_trigger
    /\ \E w \in env.writers : wpc[w] = "wait"

\* C5: a write handler that answers success has saved its root to the
\* trusted-state file.
C5_AckAfterFile ==
    [][\A w \in env.writers :
        (wpc[w] \in {"memory", "wait"} /\ wpc'[w] = "idle" /\ up') => wsaved[w]]_vars

\* C6: between the file write and the memory update the file already holds the
\* new root; temporary_root changes only after it; and a process started on a
\* readable file that it keeps has temporary_root equal to the file's root.
C6_FileBeforeMemory ==
    /\ [](\A w \in env.writers : (wpc[w] = "memory" /\ wsaved[w]) => file = wroot[w])
    /\ [][(up' /\ \E w \in env.writers : wpc[w] = "advance")
            => temporary_root' = temporary_root]_vars
    /\ [][(~up /\ up' /\ ~clear_db_mode' /\ file \notin {NoFile, Corrupt})
            => temporary_root' = file]_vars

\* A crash came after a file write whose root was not anchored: the restarted
\* process holds the file's root, not the anchor's.
C6_Witness ==
    /\ up /\ boots = 2 /\ ~clear_db_mode /\ update_counter = 0
    /\ temporary_root = file
    /\ temporary_root # main_root

\* C7: at startup main_root is the anchor's root and the counter is 0; with a
\* file holding a different root temporary_root is the file's root; in every
\* other case temporary_root is the anchor's root and the file holds it.
C7_Startup ==
    [][(~up /\ up') =>
        LET f == IF clear_db_mode' THEN NoFile ELSE file IN
        /\ main_root' = anchor
        /\ update_counter' = 0
        /\ IF f \notin {NoFile, Corrupt} /\ f # anchor
           THEN temporary_root' = f
           ELSE temporary_root' = anchor /\ file' = anchor]_vars

Restarted == up /\ boots = 2 /\ faults > 0 /\ batch_commit_size = 3 /\ pending

\* C9 as stated: after four writes (three anchored) and a crash, the second
\* write after the restart triggers the anchor commit.
C9_SecondWriteCommits ==
    (/\ Restarted /\ writes = 6 /\ update_counter = 2 /\ wpc["w1"] = "idle"
     /\ anchor # ZeroRoot /\ anchor # temporary_root)
        => (commit_trigger \/ bg = "commit" \/ anchor = temporary_root)

\* C9, amended: the counter does not survive a restart. It starts at 0 whatever
\* is pending; with a batch size of 3 the restarted process neither triggers
\* nor runs a commit before its third write, and what its first commit
\* publishes is the root held after a write that made the count a multiple of 3.
C9_CounterRestarts ==
    /\ [][(~up /\ up') => update_counter' = 0]_vars
    /\ [](Restarted /\ update_counter < 3
            => (~commit_trigger /\ bg # "commit" /\ anchor = main_root))
    /\ [][(Restarted /\ up' /\ anchor' # anchor)
            => (update_counter % 3 = 0 /\ update_counter > 0 /\ anchor' = temporary_root)]_vars

\* Four writes, three of them anchored, a crash, three more writes: the
\* commit of the seventh root is running.
C9_Witness ==
    /\ Restarted /\ writes = 7 /\ update_counter = 3
    /\ bg = "commit"
    /\ anchor # ZeroRoot /\ anchor = main_root /\ anchor # temporary_root
    /\ file = temporary_root

\* C10: once the service has started, the root held by the anchor is a value
\* temporary_root holds or has held, and so is main_root while the process
\* runs.
C10_AnchorWasTemporary ==
    boots > 0 => (anchor \in hist /\ (up => main_root \in hist))

\* The anchor holds a root that temporary_root held earlier and no longer
\* holds, after a bootstrap call.
C10_Witness ==
    /\ up /\ admin = 1
    /\ anchor # temporary_root
    /\ anchor # ZeroRoot
    /\ anchor \in hist

\* C11: while nothing fails and no operator acts, the committer never moves
\* the anchor to another root while the root of an earlier write that made
\* update_counter a multiple of the batch size has not been at the anchor: no
\* batch-boundary root is skipped.
C11_NoBoundarySkipped ==
    [][(bg = "commit" /\ anchor' # anchor /\ faults = 0 /\ admin = 0)
        => owed \subseteq {anchor'}]_vars

\* C12: while the committer writes a root to the anchor it holds the root lock
\* with commit_in_progress set, no write is in its critical section and
\* temporary_root does not change; when the commit succeeds, the anchor and
\* main_root equal temporary_root at the step that releases the lock.
C12_CommitExcludesWrites ==
    /\ [](bg = "commit" =>
            /\ root_lock = "bg" /\ commit_in_progress
            /\ \A w \in env.writers : wpc[w] \notin {"advance", "memory"})
    /\ [][(bg = "commit" /\ up') => temporary_root' = temporary_root]_vars
    /\ [][(bg = "commit" /\ bg' = "wait" /\ last_committed_count' # last_committed_count)
            => /\ anchor' = temporary_root' /\ main_root' = temporary_root'
               /\ root_lock' = "free" /\ ~commit_in_progress']_vars

\* A background commit has succeeded while its writer still waits for it.
C12_Witness ==
    /\ up /\ bg = "wait" /\ root_lock = "free" /\ last_committed_count = update_counter
    /\ update_counter > 0
    /\ anchor = temporary_root /\ main_root = temporary_root /\ anchor # ZeroRoot
    /\ \E w \in env.writers : wpc[w] = "wait"

\* C13: in the state a rebuild request (repair-roots, migrate) reaches after
\* its rebuild, and in which it stays, the in-memory SMT root, the root of the
\* leaves in merkle_nodes, temporary_root, the trusted-state file, the anchor
\* and main_root all equal the new root, and update_counter is 0 (nothing
\* having failed).
C13_RebuildAligned ==
    (adm = "force_set" /\ faults = 0) =>
        /\ Root(merkle_nodes) = Root(tree)
        /\ temporary_root = Root(tree) /\ file = Root(tree)
        /\ anchor = Root(tree) /\ main_root = Root(tree)
        /\ update_counter = 0

\* C14: no task waits for the root lock while it holds it.
C14_NoReentry ==
    adm = "force_set" => root_lock # "adm"

\* C15: a create or upsert call that starts with the in-memory SMT equal to
\* merkle_nodes returns, with success or with an error, with the two equal.
C15_TreeInLockstep ==
    [][(writes' = writes + 1 /\ tree = merkle_nodes) => tree' = merkle_nodes']_vars

\* C16: merkle_nodes holds, for every persisted row, the leaf of that row, and
\* no other non-zero leaf.
C16_LeavesMatchRows ==
    \A k \in Keys : merkle_nodes[k] = rows[k]

C18_ShutdownCommit ==
    /\ [][(shutdown = "commit" /\ shutdown' = "return") =>
            /\ root_lock = "main" /\ temporary_root # main_root
            /\ temporary_root' = temporary_root
            /\ \/ anchor' = temporary_root /\ main_root' = temporary_root
               \/ /\ faults' = faults + 1
                  /\ anchor' = anchor /\ main_root' = main_root
                  /\ file' = temporary_root]_vars
    /\ [][(up /\ shutdown = "no" /\ admin' = admin + 1 /\ ~up') =>
            /\ temporary_root = main_root /\ anchor' = anchor /\ file' = file]_vars

\* C19: when the anchor write inside force_set_roots_and_commit fails, the
\* call returns with commit_in_progress cleared and the lock released, the
\* anchor and main_root keep their values, and temporary_root and the
\* trusted-state file hold the new root.
C19_ForcedFailure ==
    [][(adm = "forced" /\ adm' = "idle" /\ up' /\ faults' = faults + 1) =>
        /\ ~commit_in_progress' /\ root_lock' = "free"
        /\ anchor' = anchor /\ main_root' = main_root
        /\ update_counter' = update_counter
        /\ file' = temporary_root']_vars

\* C20: a task that has set commit_in_progress under the root lock clears it
\* by the time it releases the lock, whether its anchor write succeeded or
\* not; while the flag is set a writer inside update_temporary_root neither
\* saves the file nor sets temporary_root.
C20_FlagCleared ==
    /\ [][(commit_in_progress /\ root_lock \in {"bg", "adm", "main"}
            /\ root_lock' = "free" /\ up') => ~commit_in_progress']_vars
    /\ [][\A w \in env.writers :
            (wpc[w] = "advance" /\ commit_in_progress /\ up') =>
                /\ wpc'[w] = "advance"
                /\ file' = file /\ temporary_root' = temporary_root]_vars

\* C21: after a background anchor write has failed, whenever the committer
\* waits with the root lock free, its next wake-up starts a commit of
\* temporary_root: the count is due and temporary_root is not yet main_root.
C21_FailedCommitRetried ==
    \A f \in failed :
        (up /\ f[2] = boots /\ bg = "wait" /\ root_lock = "free") =>
            /\ CommitDue(update_counter, last_committed_count)
            /\ temporary_root # main_root

\* C22: a write request that carries an expected_root other than the
\* temporary_root read under the root lock changes nothing: rows, merkle_nodes,
\* the tree, temporary_root, the counter and the file are as before and no
\* writer goes on; a request that is applied carried no expected_root or the
\* current temporary_root, and its transition was verified against that root.
C22_ExpectedRoot ==
    [][(writes' = writes + 1) =>
        IF asked' # NoExpected /\ asked' # temporary_root
        THEN /\ UNCHANGED <<db, roots, file, anchor, wpc, wroot, root_lock>>
        ELSE (wpc' # wpc) =>
                /\ tx'.trusted_root = temporary_root
                /\ asked' \in {NoExpected, tx'.trusted_root}
                /\ ProofVerify(tx'.trusted_root, Zip(tx'.keys, tx'.old_values),
                               tx'.proof) = "Ok(true)"]_vars

\* Three requests, two of them applied, the last one expecting the zero root
\* the first one has replaced: it was answered with a conflict.
C22_Witness ==
    /\ up /\ writes = 3 /\ update_counter = 2 /\ root_lock = "free"
    /\ asked = ZeroRoot /\ temporary_root # ZeroRoot
    /\ rows = merkle_nodes /\ temporary_root = Root(tree)
    /\ faults = 0

\* C23: a batch that names the same primary key twice is answered with an
\* error, no proof is requested from the SMT for it, and rows, merkle_nodes,
\* the tree and temporary_root are unchanged.
C23_DuplicatesRejected ==
    [][(writes' = writes + 1
        /\ \E i, j \in DOMAIN answer'.keys : i # j /\ answer'.keys[i] = answer'.keys[j]) =>
            /\ answer'.err # "none"
            /\ answer'.probed = <<>>
            /\ UNCHANGED <<db, temporary_root, wpc>>]_vars

\* C24: create_records and upsert_records answer an empty batch with the
\* empty-batch error, before the transaction and before any proof, and rows,
\* merkle_nodes, the tree, temporary_root, the counter and the file are
\* unchanged.
C24_EmptyBatch ==
    [][(writes' = writes + 1 /\ answer'.keys = <<>>) =>
            /\ answer'.err = "empty" /\ answer'.probed = <<>>
            /\ UNCHANGED <<db, roots, file, anchor, writers, root_lock>>]_vars

\* An empty batch has been answered after a write that was applied.
C24_Witness ==
    /\ up /\ answer.keys = <<>> /\ answer.err = "empty" /\ writes = 2
    /\ update_counter = 1 /\ temporary_root # ZeroRoot /\ root_lock = "free"

\* C25: the verifier accepts exactly when the lists have one length, the root
\* recomputed from the proof and the old values is the trusted root and the
\* root recomputed from the proof and the new values is the proposed root;
\* a proof from which no root can be recomputed is never accepted.
C25_VerifierExact ==
    (tx # NoCall) =>
        ((answer.err = "none") <=>
            /\ Len(tx.keys) = Len(tx.old_values) /\ Len(tx.keys) = Len(tx.new_values)
            /\ ComputeRootResult(tx.proof, Zip(tx.keys, tx.old_values)) = tx.trusted_root
            /\ ComputeRootResult(tx.proof, Zip(tx.keys, tx.new_values)) = tx.proposed_root)

\* C26: hash_key hashes different bytes for different (table_name,
\* primary_key) pairs.
C26_KeyBytesDistinct ==
    \A h1, h2 \in hashed :
        (h1.fn = "hash_key" /\ h2.fn = "hash_key" /\ h1.args # h2.args) =>
            h1.bytes # h2.bytes

\* C27: the bytes hash_value hashes for a row are never the bytes hash_key
\* hashes for a table and a primary key.
C27_DomainsSeparate ==
    \A h1, h2 \in hashed :
        (h1.fn = "hash_value" /\ h2.fn = "hash_key") => h1.bytes # h2.bytes

\* The empty row has been hashed as a value and the pair ("{", "}"), which
\* spells the same string, as a key.
C27_Witness ==
    /\ \E h \in hashed : h.fn = "hash_value" /\ DOMAIN h.args[1] = {}
    /\ \E h \in hashed : h.fn = "hash_key" /\ h.args[1] \o h.args[2] = <<"{", "}">>

\* C28: at most one instance holds the advisory lock; an instance started
\* without ALLOW_MULTI_INSTANCE=true serves only while it holds the lock, so
\* two such instances never serve together and the one started second was
\* refused; an instance started with the opt-out holds no lock.
C28_SingleInstance ==
    /\ [](/\ Cardinality(instances.lock) <= 1
          /\ instances.lock \subseteq Serving
          /\ instances.allow \subseteq Serving
          /\ \A i \in Serving : (i \in instances.lock) <=> (i \notin instances.allow))
    /\ [][(instances.second = "down" /\ instances'.second = "refused") =>
            /\ up /\ instances.lock = {1} /\ instances'.lock = {1}]_vars
    /\ [][(instances.second = "down" /\ instances'.second = "serving"
            /\ 2 \notin instances'.allow) => instances.lock = {}]_vars

\* The first instance serves a write in progress, holding the lock; the
\* second was started without the opt-out and refused.
C28_Witness ==
    /\ up /\ instances.lock = {1} /\ instances.second = "refused"
    /\ wpc["w1"] = "advance" /\ boots = 2

\* C29: when clear-data returns success, rows, merkle_nodes and the tree are
\* empty, temporary_root, main_root, the anchor and the trusted-state file
\* hold the zero root, and the counter is 0.
C29_ClearedState ==
    [][(adm = "clear_reset" /\ adm' = "idle" /\ up') =>
        /\ rows' = EmptyTree /\ merkle_nodes' = EmptyTree /\ tree' = EmptyTree
        /\ temporary_root' = ZeroRoot /\ main_root' = ZeroRoot
        /\ anchor' = ZeroRoot /\ file' = ZeroRoot
        /\ update_counter' = 0]_vars

\* C30: after a graceful shutdown, a restart that does not clear the state
\* and meets no failure leaves temporary_root equal to the root of the tree
\* reloaded from merkle_nodes.
C30_WarmStart ==
    [][(~up /\ up' /\ boots > 0 /\ ~clear_db_mode' /\ faults' = 0) =>
            temporary_root' = Root(tree')]_vars

\* C31: while the process runs, a write that returns leaves temporary_root at
\* its proposed_root; temporary_root then changes only when another write
\* returns or when a clear, a schema application or a forced alignment sets
\* it; a write that enters its critical section is verified against the
\* temporary_root of that moment, and while nothing has failed the proof of a
\* read that verifies recomputes to the temporary_root of that moment.
C31_NextSeesRoot ==
    /\ [][\A w \in Writers :
            (w \in env.writers /\ wpc[w] = "memory" /\ wpc'[w] # "memory" /\ up') =>
                /\ temporary_root' = wroot[w]
                /\ temporary_root' = tx.proposed_root]_vars
    /\ [][(up /\ up' /\ temporary_root' # temporary_root) =>
            \/ \E w \in env.writers : wpc[w] = "memory" /\ wpc'[w] # "memory"
            \/ adm \in {"clear_reset", "schema_reset"}
            \/ adm' = "forced"]_vars
    /\ [][(tx = NoCall /\ tx' # NoCall) =>
            /\ tx'.trusted_root = temporary_root
            /\ temporary_root' = temporary_root]_vars
    /\ [][(rd' # rd /\ rd'[1] = "verified" /\ faults = 0 /\ admin = 0) =>
            \A ids \in IdLists :
                Len(Found(ids, Len(ids))) = Len(ids) =>
                    ProofVerify(temporary_root, Found(ids, Len(ids)),
                                GenerateProof(tree, ids)) = "Ok(true)"]_vars

\* A read verified after the first write returned, and the second write in its
\* critical section, verified against the root the first one left.
C31_Witness ==
    /\ up /\ update_counter = 1 /\ temporary_root # ZeroRoot
    /\ rd = <<"verified", TRUE>>
    /\ tx # NoCall /\ tx.trusted_root = temporary_root
    /\ tx.proposed_root # temporary_root

\* C32: when the only client's write that triggered a commit is answered
\* (committed = true) after the committer has taken the notification and
\* finished its check, the anchor holds that write's root.
C32_CommittedIsAnchored ==
    [][(up /\ up' /\ wpc["w1"] = "wait" /\ wpc'["w1"] = "idle"
            /\ ~commit_trigger /\ bg = "wait") =>
                anchor = temporary_root]_vars

\* C33: whenever the committer takes a notification while the counter is a
\* positive multiple of the batch size and temporary_root is not anchored, it
\* performs a commit, also when reset_roots has set the counter back to 0
\* after earlier commits.
C33_BatchingResumes ==
    [][(up /\ up' /\ bg = "wait" /\ commit_trigger /\ ~commit_trigger'
            /\ update_counter > 0 /\ update_counter % batch_commit_size = 0
            /\ temporary_root # main_root) =>
                bg' = "commit"]_vars

\* C34: while the service that started with a root in the file that the anchor
\* did not hold is idle, no write made since the start and that root not yet
\* anchored, the next check of the committer commits it.
C34_PendingAnchored ==
    (up /\ pending /\ update_counter = 0 /\ temporary_root # anchor
        /\ bg = "wait" /\ root_lock = "free") =>
            /\ CommitDue(update_counter, last_committed_count)
            /\ temporary_root # main_root

\* C35: a restart after the process died, the trusted-state file readable and
\* kept, leaves temporary_root equal to the root of the SMT loaded from
\* merkle_nodes.
C35_CrashRecovery ==
    [][(~up /\ up' /\ boots > 0 /\ faults = 1 /\ ~clear_db_mode' /\ file' # Corrupt) =>
            temporary_root' = Root(merkle_nodes)]_vars

\* C36: in the first run of the service, started on a consistent state,
\* whenever no task holds the root lock temporary_root is the root of the
\* in-memory SMT.
C36_RootOfTree ==
    (up /\ boots = 1 /\ root_lock = "free") => temporary_root = Root(tree)

\* C37: while nothing has failed and no bootstrap call was made, a read_batch
\* runs on rows, an in-memory SMT and a temporary_root that reflect the same
\* completed writes, whatever the writers and the committer are doing, and
\* when all its ids exist it verifies.
C37_NoTornRead ==
    [][(rd' # rd /\ up' /\ faults = 0 /\ admin = 0) =>
            /\ rows = tree /\ tree = merkle_nodes
            /\ temporary_root = Root(tree)
            /\ \A w \in env.writers : wpc[w] \notin {"advance", "memory"}
            /\ rd'[2] => rd'[1] = "verified"]_vars

\* A read of both rows has verified; the second write is answered only after
\* the commit that the committer is making, while the other client is idle.
C37_Witness ==
    /\ up /\ rd = <<"verified", TRUE>> /\ faults = 0 /\ admin = 0
    /\ bg = "commit" /\ commit_in_progress
    /\ \E w \in env.writers : wpc[w] = "wait"
    /\ update_counter = 2 /\ writes = 2
    /\ \A k \in Keys : rows[k] # 0

\* C38: whenever no task holds the root lock, main_root is the root stored at
\* the anchor.
C38_MainRootIsAnchor ==
    (up /\ root_lock = "free") => main_root = anchor

\* C39: while nothing has failed, a read_batch that finds some of its ids and
\* misses others is answered with the records found, verified.
C39_PartialRead ==
    [][(rd' # rd /\ up' /\ faults = 0 /\ admin = 0
            /\ rd'[1] # "not_found" /\ ~rd'[2]) =>
                rd'[1] = "verified"]_vars

\* C40: the start of a second instance that is refused the advisory lock,
\* nothing failing in it, leaves the trusted-state file the running instance
\* has written and the anchor as they were.
C40_RefusedStartNoEffect ==
    [][(instances.second = "down" /\ instances'.second = "refused" /\ up
            /\ file # NoFile /\ faults' = faults) =>
            file' = file /\ anchor' = anchor]_vars

====
